---- MODULE Spec2Model ----
(***************************************************************************)
(* The in-memory user repository and its five HTTP handlers.  Each request *)
(* runs in its own goroutine: it parses its query parameters, makes one    *)
(* repository call under the repository mutex and writes its response.     *)
(***************************************************************************)
EXTENDS Integers, Sequences, FiniteSets, TLC

(* ---------------------------- bounds ---------------------------------- *)
\* number of request goroutines that may be in flight together
NumProcs == 2
\* total number of requests the server receives in one behaviour
MaxReqs == 3

Procs == 1..NumProcs

(* ---------------------------- data ------------------------------------ *)
IdParams == {"", "1", "2"}
NameParams == {"", "Alice", "Bob"}
\* the age query parameter, as the characters of the string
AgeParams == {<<>>, <<"3", "0">>, <<"3", "1">>, <<"a", "b", "c">>}

Digits == <<"0", "1", "2", "3", "4", "5", "6", "7", "8", "9">>
IsDigit(c) == \E i \in 1..10 : Digits[i] = c
DigitVal(c) == (CHOOSE i \in 1..10 : Digits[i] = c) - 1

RECURSIVE ParseDigits(_, _)
ParseDigits(s, acc) ==
    IF s = <<>> THEN acc
    ELSE ParseDigits(Tail(s), acc * 10 + DigitVal(Head(s)))

\* strconv.Atoi: an optional sign, then one or more decimal digits.  Its
\* out-of-range error needs 19 digits or more; AgeParams holds no such string.
Atoi(s) ==
    LET signed == s # <<>> /\ Head(s) \in {"+", "-"}
        ds == IF signed THEN Tail(s) ELSE s
        good == ds # <<>> /\ \A i \in 1..Len(ds) : IsDigit(ds[i])
        mag == IF good THEN ParseDigits(ds, 0) ELSE 0
        neg == signed /\ Head(s) = "-"
    IN  IF good
            THEN [ok |-> TRUE, val |-> IF neg THEN 0 - mag ELSE mag]
            ELSE [ok |-> FALSE, val |-> 0]

RECURSIVE ItoaDigits(_)
ItoaDigits(n) ==
    IF n < 10 THEN <<Digits[n + 1]>>
    ELSE ItoaDigits(n \div 10) \o <<Digits[(n % 10) + 1]>>

\* the decimal text of an integer, as encoding/json writes it
Itoa(n) == IF n < 0 THEN <<"-">> \o ItoaDigits(0 - n) ELSE ItoaDigits(n)

\* type User struct
User(id, name, age) == [ID |-> id, Name |-> name, Age |-> age]
\* the zero value User{}
ZeroUser == User("", "", 0)

Nil == "<nil>"
ErrAlreadyExists == "user already exists"
ErrNotFound == "user not found"

StatusOK == 200
StatusCreated == 201
StatusBadRequest == 400
StatusNotFound == 404
StatusInternalServerError == 500

MsgMissingParams == "Missing parameters"
MsgMissingId == "Missing id parameter"
MsgInvalidAge == "Invalid age parameter"

(* ---------------------------- state ----------------------------------- *)
VARIABLES
    users,      \* repo.users: a function from the stored ids to their User
    mu,         \* repo.mu: TRUE while the mutex is locked
    pc,         \* where each request goroutine is
    req,        \* the query parameters of the request it serves
    call,       \* the repository call it makes
    ret,        \* what the repository call returned
    resp,       \* the HTTP response it wrote
    before,     \* the map as it was when the call in progress took the lock
    found,      \* whether the id of the call was a key of the map at that moment
    hist,       \* history of each id: the last successful write to it
    nCreateOK,  \* Create calls that have returned success
    nDeleteOK,  \* Delete calls that have returned success
    nreq,       \* requests received so far
    atom,       \* the map of the atomic map specification
    atomRet,    \* what the atomic map specification returns to each call
    turn        \* the rank of each goroutine's latest call in the order of locking

vars == <<users, mu, pc, req, call, ret, resp, before, found, hist, nCreateOK, nDeleteOK, nreq,
          atom, atomRet, turn>>

Ids == IdParams \ {""}

NoReq == [op |-> "none", id |-> "", name |-> "", age |-> <<>>]
NoCall == [method |-> "none", user |-> ZeroUser]
NoRet == [err |-> Nil, user |-> ZeroUser, list |-> <<>>, isNil |-> TRUE]
NoResp == [status |-> 0, body |-> <<>>]

Query(o, i, n, a) == [op |-> o, id |-> i, name |-> n, age |-> a]

\* requests whose parameters are all present and well formed
GoodRequests ==
    {Query(o, i, n, a) : o \in {"create", "update"}, i \in Ids,
                         n \in NameParams \ {""}, a \in {<<"3", "0">>, <<"3", "1">>}}
    \cup {Query(o, i, "", <<>>) : o \in {"find", "delete"}, i \in Ids}
    \cup {Query("list", "", "", <<>>)}

\* requests with one parameter missing or malformed, or with none at all
BadRequests ==
    {Query(o, "", "Alice", <<"3", "0">>) : o \in {"create", "update"}}
    \cup {Query(o, "1", "", <<"3", "0">>) : o \in {"create", "update"}}
    \cup {Query(o, "1", "Alice", <<>>) : o \in {"create", "update"}}
    \cup {Query(o, "1", "Alice", <<"a", "b", "c">>) : o \in {"create", "update"}}
    \cup {Query(o, "", "", <<>>) : o \in {"create", "update", "find", "delete"}}

Requests == GoodRequests \cup BadRequests

\* the requests drawn when several goroutines serve requests together: every
\* operation on every id, two records to create, one to update to, and one
\* request that its handler rejects
ConcRequests ==
    {Query("create", i, "Alice", <<"3", "0">>) : i \in Ids}
    \cup {Query(o, i, "Bob", <<"3", "1">>) : o \in {"create", "update"}, i \in Ids}
    \cup {Query(o, i, "", <<>>) : o \in {"find", "delete"}, i \in Ids}
    \cup {Query("list", "", "", <<>>), Query("find", "", "", <<>>)}

(* ---------------------------- repository ------------------------------ *)
\* the comma-ok map lookup  _, exists := repo.users[id]
Exists(us, id) == id \in DOMAIN us

\* repo.users[user.ID] = user
MapPut(us, u) ==
    [x \in (DOMAIN us) \cup {u.ID} |-> IF x = u.ID THEN u ELSE us[x]]

\* delete(repo.users, id)
MapDelete(us, id) == [x \in (DOMAIN us) \ {id} |-> us[x]]

\* a Lock that never waits
NoMutex(m) == TRUE

\* sync.Mutex.Lock returns only when the mutex is unlocked
CanLock(m) == ~m

\* a Create that does not check for a duplicate
CreateNeverFails(us, u) == FALSE

\* Create: the duplicate check
CreateFails(us, u) == Exists(us, u.ID)
\* a Create that replaces the map by one holding the new record alone
CreateStoreLosesOthers(us, u) == [x \in {u.ID} |-> u]

\* a Create that stores the record without its age
CreateStoreDropsAge(us, u) == MapPut(us, [u EXCEPT !.Age = 0])

\* Create: the insert
CreateStore(us, u) == MapPut(us, u)

\* Find: the lookup and both returns
FindResult(us, id) ==
    IF ~Exists(us, id)
        THEN [err |-> ErrNotFound, user |-> ZeroUser, list |-> <<>>, isNil |-> TRUE]
        ELSE [err |-> Nil, user |-> us[id], list |-> <<>>, isNil |-> TRUE]

\* an Update that does not check that the id is present
UpdateNeverFails(us, u) == FALSE

\* Update: the presence check
UpdateFails(us, u) == ~Exists(us, u.ID)
\* an Update that replaces the name and keeps the stored age
UpdateStoreKeepsAge(us, u) == MapPut(us, [u EXCEPT !.Age = us[u.ID].Age])

\* Update: the overwrite
UpdateStore(us, u) == MapPut(us, u)

\* a Delete that does not check that the id is present
DeleteNeverFails(us, id) == FALSE

\* Delete: the presence check
DeleteFails(us, id) == ~Exists(us, id)
\* a Delete that leaves the entry in the map
DeleteStoreKeeps(us, id) == us

\* a Delete that empties the map
DeleteStoreClears(us, id) == <<>>

\* Delete: the removal
DeleteStore(us, id) == MapDelete(us, id)

\* the orders in which a range over the map may visit its keys
Orders(S) ==
    {s \in [1..Cardinality(S) -> S] : \A i, j \in 1..Cardinality(S) : s[i] = s[j] => i = j}

\* a List whose loop skips one entry of a map with two or more
ListResultsSkipsOne(us) ==
    {[err |-> Nil, user |-> ZeroUser,
      list |-> [i \in 1..(IF Cardinality(DOMAIN us) > 1 THEN Cardinality(DOMAIN us) - 1
                                                        ELSE Cardinality(DOMAIN us))
                  |-> us[o[i]]],
      isNil |-> (DOMAIN us = {})] : o \in Orders(DOMAIN us)}

\* List: the slices the range loop can build; a nil slice when the map is empty
ListResults(us) ==
    {[err |-> Nil, user |-> ZeroUser,
      list |-> [i \in 1..Cardinality(DOMAIN us) |-> us[o[i]]],
      isNil |-> (DOMAIN us = {})] : o \in Orders(DOMAIN us)}

\* a method that returns with the mutex still locked
MuHeldAlways(r) == TRUE

\* an Unlock that the error returns skip
MuHeldOnError(r) == r.err # Nil

\* the deferred repo.mu.Unlock(): the state of the mutex after a return
MuAfterReturn(r) == FALSE

(* ---------------------------- atomic map ------------------------------ *)
\* The UserRepository contract as an atomic map: one call is one step that
\* takes the map m to a new map and a result. A result is an error, a record
\* and, for List, the set of records returned.
NoAtomRet == [err |-> Nil, user |-> ZeroUser, recs |-> {}]

AtomicStep(c, m) ==
    LET id == c.user.ID
        has == id \in DOMAIN m
        with == [x \in DOMAIN m \cup {id} |-> IF x = id THEN c.user ELSE m[x]]
        without == [x \in DOMAIN m \ {id} |-> m[x]]
        fail(e) == [err |-> e, user |-> ZeroUser, recs |-> {}]
    IN CASE c.method = "Create" ->
                IF has THEN [map |-> m, ret |-> fail(ErrAlreadyExists)]
                       ELSE [map |-> with, ret |-> NoAtomRet]
         [] c.method = "Update" ->
                IF has THEN [map |-> with, ret |-> NoAtomRet]
                       ELSE [map |-> m, ret |-> fail(ErrNotFound)]
         [] c.method = "Delete" ->
                IF has THEN [map |-> without, ret |-> NoAtomRet]
                       ELSE [map |-> m, ret |-> fail(ErrNotFound)]
         [] c.method = "Find" ->
                IF has THEN [map |-> m, ret |-> [err |-> Nil, user |-> m[id], recs |-> {}]]
                       ELSE [map |-> m, ret |-> fail(ErrNotFound)]
         [] c.method = "List" ->
                [map |-> m,
                 ret |-> [err |-> Nil, user |-> ZeroUser, recs |-> {m[x] : x \in DOMAIN m}]]
         [] OTHER -> [map |-> m, ret |-> NoAtomRet]

\* the place in the lock order of the call that took the lock last
Latest(t) == CHOOSE n \in {t[p] : p \in Procs} : \A q \in Procs : t[q] <= n

\* the ranks once the call of p is forgotten: the later calls move up by one
Forget(t, p) ==
    [q \in Procs |-> IF q = p THEN 0
                     ELSE IF t[p] > 0 /\ t[q] > t[p] THEN t[q] - 1
                     ELSE t[q]]

(* ---------------------------- handlers -------------------------------- *)
\* http.Error(w, msg, code): the status and the message followed by a newline
HttpError(msg, code) == [status |-> code, body |-> <<msg, "\n">>]

\* encoding/json of a string without characters that need escaping
JSONString(s) == <<"\"", s, "\"">>

\* encoding/json of a User, fields in declaration order under their json tags
EncodeUser(u) ==
    <<"{">> \o JSONString("id") \o <<":">> \o JSONString(u.ID) \o <<",">>
        \o JSONString("name") \o <<":">> \o JSONString(u.Name) \o <<",">>
        \o JSONString("age") \o <<":">> \o Itoa(u.Age) \o <<"}">>

RECURSIVE EncodeElems(_)
EncodeElems(l) ==
    IF l = <<>> THEN <<>>
    ELSE IF Len(l) = 1 THEN EncodeUser(l[1])
    ELSE EncodeUser(l[1]) \o <<",">> \o EncodeElems(Tail(l))

\* encoding/json of a []User: null for a nil slice, else an array
EncodeList(r) ==
    IF r.isNil THEN <<"null">> ELSE <<"[">> \o EncodeElems(r.list) \o <<"]">>

\* json.NewEncoder(w).Encode(v) on a fresh ResponseWriter: 200 and v's JSON, newline-terminated
EncodeResponse(json) == [status |-> StatusOK, body |-> json \o <<"\n">>]

Reject(rsp) == [ok |-> FALSE, resp |-> rsp, call |-> NoCall]
Accept(m, u) == [ok |-> TRUE, resp |-> NoResp, call |-> [method |-> m, user |-> u]]

\* createUserHandler up to the repository call
createUserHandlerParse(r) ==
    IF r.id = "" \/ r.name = "" \/ r.age = <<>>
        THEN Reject(HttpError(MsgMissingParams, StatusBadRequest))
    ELSE IF ~Atoi(r.age).ok
        THEN Reject(HttpError(MsgInvalidAge, StatusBadRequest))
    ELSE Accept("Create", User(r.id, r.name, Atoi(r.age).val))

\* a createUserHandler that leaves the status of a success at the default 200
createUserHandlerRespondOK(rt) ==
    IF rt.err # Nil THEN HttpError(rt.err, StatusInternalServerError)
    ELSE [status |-> StatusOK, body |-> <<>>]

\* createUserHandler after the repository call
createUserHandlerRespond(rt) ==
    IF rt.err # Nil THEN HttpError(rt.err, StatusInternalServerError)
    ELSE [status |-> StatusCreated, body |-> <<>>]

\* listUsersHandler up to the repository call
listUsersHandlerParse(r) == Accept("List", ZeroUser)

\* listUsersHandler after the repository call
listUsersHandlerRespond(rt) ==
    IF rt.err # Nil THEN HttpError(rt.err, StatusInternalServerError)
    ELSE EncodeResponse(EncodeList(rt))

\* a findUserHandler without the check for an empty id
findUserHandlerParseNoCheck(r) == Accept("Find", User(r.id, "", 0))

\* findUserHandler up to the repository call
findUserHandlerParse(r) ==
    IF r.id = "" THEN Reject(HttpError(MsgMissingId, StatusBadRequest))
    ELSE Accept("Find", User(r.id, "", 0))

\* a findUserHandler that answers a repository error like the other handlers do
findUserHandlerRespondAs500(rt) ==
    IF rt.err # Nil THEN HttpError(rt.err, StatusInternalServerError)
    ELSE EncodeResponse(EncodeUser(rt.user))

\* findUserHandler after the repository call
findUserHandlerRespond(rt) ==
    IF rt.err # Nil THEN HttpError(rt.err, StatusNotFound)
    ELSE EncodeResponse(EncodeUser(rt.user))

\* an updateUserHandler that ignores the error of strconv.Atoi
updateUserHandlerParseIgnoresErr(r) ==
    IF r.id = "" \/ r.name = "" \/ r.age = <<>>
        THEN Reject(HttpError(MsgMissingParams, StatusBadRequest))
    ELSE Accept("Update", User(r.id, r.name, Atoi(r.age).val))

\* updateUserHandler up to the repository call
updateUserHandlerParse(r) ==
    IF r.id = "" \/ r.name = "" \/ r.age = <<>>
        THEN Reject(HttpError(MsgMissingParams, StatusBadRequest))
    ELSE IF ~Atoi(r.age).ok
        THEN Reject(HttpError(MsgInvalidAge, StatusBadRequest))
    ELSE Accept("Update", User(r.id, r.name, Atoi(r.age).val))

\* updateUserHandler after the repository call
updateUserHandlerRespond(rt) ==
    IF rt.err # Nil THEN HttpError(rt.err, StatusInternalServerError)
    ELSE [status |-> StatusOK, body |-> <<>>]

\* deleteUserHandler up to the repository call
deleteUserHandlerParse(r) ==
    IF r.id = "" THEN Reject(HttpError(MsgMissingId, StatusBadRequest))
    ELSE Accept("Delete", User(r.id, "", 0))

\* deleteUserHandler after the repository call
deleteUserHandlerRespond(rt) ==
    IF rt.err # Nil THEN HttpError(rt.err, StatusInternalServerError)
    ELSE [status |-> StatusOK, body |-> <<>>]

\* the routes registered in main
HandlerParse(r) ==
    CASE r.op = "create" -> createUserHandlerParse(r)
      [] r.op = "list" -> listUsersHandlerParse(r)
      [] r.op = "find" -> findUserHandlerParse(r)
      [] r.op = "update" -> updateUserHandlerParse(r)
      [] r.op = "delete" -> deleteUserHandlerParse(r)

\* each handler continues after the repository method it called
HandlerRespond(c, rt) ==
    CASE c.method = "Create" -> createUserHandlerRespond(rt)
      [] c.method = "List" -> listUsersHandlerRespond(rt)
      [] c.method = "Find" -> findUserHandlerRespond(rt)
      [] c.method = "Update" -> updateUserHandlerRespond(rt)
      [] c.method = "Delete" -> deleteUserHandlerRespond(rt)

(* ---------------------------- behaviour ------------------------------- *)
\* NewInMemoryUserRepository and a server with no request yet
Init ==
    /\ users = <<>>
    /\ mu = FALSE
    /\ pc = [p \in Procs |-> "idle"]
    /\ req = [p \in Procs |-> NoReq]
    /\ call = [p \in Procs |-> NoCall]
    /\ ret = [p \in Procs |-> NoRet]
    /\ resp = [p \in Procs |-> NoResp]
    /\ before = [p \in Procs |-> <<>>]
    /\ found = [p \in Procs |-> FALSE]
    /\ hist = [i \in Ids |-> [st |-> "never", user |-> ZeroUser]]
    /\ nCreateOK = 0
    /\ nDeleteOK = 0
    /\ nreq = 0
    /\ atom = <<>>
    /\ atomRet = [p \in Procs |-> NoAtomRet]
    /\ turn = [p \in Procs |-> 0]

\* the server hands request r to a goroutine
Dispatch(p, r) ==
    /\ pc[p] \in {"idle", "done"}
    /\ nreq' = nreq + 1
    /\ pc' = [pc EXCEPT ![p] = "parse"]
    /\ req' = [req EXCEPT ![p] = r]
    /\ call' = [call EXCEPT ![p] = NoCall]
    /\ ret' = [ret EXCEPT ![p] = NoRet]
    /\ resp' = [resp EXCEPT ![p] = NoResp]
    /\ found' = [found EXCEPT ![p] = FALSE]
    /\ atomRet' = [atomRet EXCEPT ![p] = NoAtomRet]
    /\ turn' = Forget(turn, p)
    /\ UNCHANGED <<users, mu, before, hist, nCreateOK, nDeleteOK, atom>>

\* a request arrives, while the server has received fewer than MaxReqs
Receive(p, r) == nreq < MaxReqs /\ Dispatch(p, r)

\* the handler reads and validates its query parameters
Parse(p) ==
    /\ pc[p] = "parse"
    /\ LET out == HandlerParse(req[p]) IN
        /\ pc' = [pc EXCEPT ![p] = IF out.ok THEN "lock" ELSE "done"]
        /\ call' = [call EXCEPT ![p] = out.call]
        /\ resp' = [resp EXCEPT ![p] = out.resp]
    /\ req' = [req EXCEPT ![p] = NoReq]
    /\ UNCHANGED <<users, mu, ret, before, found, hist, nCreateOK, nDeleteOK, nreq,
                 atom, atomRet, turn>>

\* repo.mu.Lock()
Lock(p) ==
    /\ pc[p] = "lock"
    /\ CanLock(mu)
    /\ mu' = TRUE
    /\ pc' = [pc EXCEPT ![p] = "check"]
    /\ before' = [before EXCEPT ![p] = users]
    /\ found' = [found EXCEPT ![p] = Exists(users, call[p].user.ID)]
    /\ atom' = AtomicStep(call[p], atom).map
    /\ atomRet' = [atomRet EXCEPT ![p] = AtomicStep(call[p], atom).ret]
    /\ turn' = [turn EXCEPT ![p] = 1 + Latest(turn)]
    /\ UNCHANGED <<users, req, call, ret, resp, hist, nCreateOK, nDeleteOK, nreq>>

Failed(e) == [err |-> e, user |-> ZeroUser, list |-> <<>>, isNil |-> TRUE]

\* the first statement of the method body: the lookup, or the whole of List and Find
Check(p) ==
    /\ pc[p] = "check"
    /\ LET m == call[p].method
           u == call[p].user
       IN CASE m = "Create" ->
                  IF CreateFails(users, u)
                      THEN /\ ret' = [ret EXCEPT ![p] = Failed(ErrAlreadyExists)]
                           /\ pc' = [pc EXCEPT ![p] = "unlock"]
                      ELSE /\ pc' = [pc EXCEPT ![p] = "write"]
                           /\ ret' = ret
            [] m = "List" ->
                  /\ \E r \in ListResults(users) : ret' = [ret EXCEPT ![p] = r]
                  /\ pc' = [pc EXCEPT ![p] = "unlock"]
            [] m = "Find" ->
                  /\ ret' = [ret EXCEPT ![p] = FindResult(users, u.ID)]
                  /\ pc' = [pc EXCEPT ![p] = "unlock"]
            [] m = "Update" ->
                  IF UpdateFails(users, u)
                      THEN /\ ret' = [ret EXCEPT ![p] = Failed(ErrNotFound)]
                           /\ pc' = [pc EXCEPT ![p] = "unlock"]
                      ELSE /\ pc' = [pc EXCEPT ![p] = "write"]
                           /\ ret' = ret
            [] m = "Delete" ->
                  IF DeleteFails(users, u.ID)
                      THEN /\ ret' = [ret EXCEPT ![p] = Failed(ErrNotFound)]
                           /\ pc' = [pc EXCEPT ![p] = "unlock"]
                      ELSE /\ pc' = [pc EXCEPT ![p] = "write"]
                           /\ ret' = ret
    /\ UNCHANGED <<users, mu, req, call, resp, before, found, hist, nCreateOK, nDeleteOK, nreq,
                 atom, atomRet, turn>>

\* the map write of Create, Update or Delete, and its  return nil
Write(p) ==
    /\ pc[p] = "write"
    /\ LET m == call[p].method
           u == call[p].user
       IN CASE m = "Create" ->
                  /\ users' = CreateStore(users, u)
                  /\ hist' = [hist EXCEPT ![u.ID] = [st |-> "created", user |-> u]]
            [] m = "Update" ->
                  /\ users' = UpdateStore(users, u)
                  /\ hist' = [hist EXCEPT ![u.ID] = [st |-> "updated", user |-> u]]
            [] m = "Delete" ->
                  /\ users' = DeleteStore(users, u.ID)
                  /\ hist' = [hist EXCEPT ![u.ID] = [st |-> "deleted", user |-> ZeroUser]]
    /\ ret' = [ret EXCEPT ![p] = NoRet]
    /\ pc' = [pc EXCEPT ![p] = "unlock"]
    /\ UNCHANGED <<mu, req, call, resp, before, found, nCreateOK, nDeleteOK, nreq,
                 atom, atomRet, turn>>

\* the method returns: the deferred repo.mu.Unlock() runs and the caller has the result
Unlock(p) ==
    /\ pc[p] = "unlock"
    /\ mu' = MuAfterReturn(ret[p])
    /\ pc' = [pc EXCEPT ![p] = "respond"]
    /\ nCreateOK' = IF call[p].method = "Create" /\ ret[p].err = Nil
                        THEN nCreateOK + 1 ELSE nCreateOK
    /\ nDeleteOK' = IF call[p].method = "Delete" /\ ret[p].err = Nil
                        THEN nDeleteOK + 1 ELSE nDeleteOK
    /\ before' = [before EXCEPT ![p] = <<>>]
    /\ UNCHANGED <<users, req, call, ret, resp, found, hist, nreq,
                 atom, atomRet, turn>>

\* the handler turns the result into the HTTP response
Respond(p) ==
    /\ pc[p] = "respond"
    /\ resp' = [resp EXCEPT ![p] = HandlerRespond(call[p], ret[p])]
    /\ pc' = [pc EXCEPT ![p] = "done"]
    /\ UNCHANGED <<users, mu, req, call, ret, before, found, hist, nCreateOK, nDeleteOK, nreq,
                 atom, atomRet, turn>>

\* any number of the goroutines of Procs serve requests together
Next ==
    \E p \in Procs :
        \/ \E r \in ConcRequests : Receive(p, r)
        \/ Parse(p)
        \/ Lock(p)
        \/ Check(p)
        \/ Write(p)
        \/ Unlock(p)
        \/ Respond(p)

Spec == Init /\ [][Next]_vars

\* one request at a time: a single goroutine serves every request of Requests
SeqNext ==
    \/ \E r \in Requests : Receive(1, r)
    \/ Parse(1)
    \/ Lock(1)
    \/ Check(1)
    \/ Write(1)
    \/ Unlock(1)
    \/ Respond(1)

SeqSpec == Init /\ [][SeqNext]_vars

\* several callers create pairwise distinct ids that the map does not hold
ReceiveCreate(p) ==
    /\ pc[p] = "idle"
    /\ \E r \in GoodRequests :
          /\ r.op = "create"
          /\ r.id \notin DOMAIN users
          /\ \A q \in Procs \ {p} : req[q].id # r.id /\ call[q].user.ID # r.id
          /\ Receive(p, r)

\* a list request that starts when every create has been answered
ReceiveList(p) ==
    /\ \A q \in Procs : pc[q] \in {"idle", "done"}
    /\ \E q \in Procs : pc[q] = "done"
    /\ Receive(p, Query("list", "", "", <<>>))

ConcCreateNext ==
    \E p \in Procs :
        \/ ReceiveCreate(p)
        \/ ReceiveList(p)
        \/ Parse(p)
        \/ Lock(p)
        \/ Check(p)
        \/ Write(p)
        \/ Unlock(p)
        \/ Respond(p)

ConcCreateSpec == Init /\ [][ConcCreateNext]_vars

\* every goroutine serves one Create, all of the same id, which the map does
\* not hold when the first of them starts; names and ages are free
ReceiveSameCreate(p) ==
    /\ pc[p] = "idle"
    /\ \E r \in GoodRequests :
          /\ r.op = "create"
          /\ \A q \in Procs \ {p} :
                /\ req[q] = NoReq \/ req[q].id = r.id
                /\ call[q] = NoCall \/ call[q].user.ID = r.id
          /\ Receive(p, r)

SameCreateNext ==
    \E p \in Procs :
        \/ ReceiveSameCreate(p)
        \/ Parse(p)
        \/ Lock(p)
        \/ Check(p)
        \/ Write(p)
        \/ Unlock(p)
        \/ Respond(p)

SameCreateSpec == Init /\ [][SameCreateNext]_vars

\* the repository method that the handler of each route calls
MethodOf(op) ==
    CASE op = "create" -> "Create"
      [] op = "list" -> "List"
      [] op = "find" -> "Find"
      [] op = "update" -> "Update"
      [] op = "delete" -> "Delete"
      [] OTHER -> "none"

\* a first request creates a record
ReceiveFirstCreate(p) ==
    /\ nreq = 0
    /\ \E r \in GoodRequests : r.op = "create" /\ Receive(p, r)

\* once the record is stored, one Update and one Delete of its id arrive, in
\* either order and at any distance from each other: the second and the third
\* request of the scenario
ReceiveUpdateOrDelete(p) ==
    /\ nCreateOK = 1
    /\ nreq \in {1, 2}
    /\ \E r \in GoodRequests :
          /\ r.op \in {"update", "delete"}
          /\ hist[r.id].st # "never"
          /\ \A q \in Procs : req[q].op # r.op /\ call[q].method # MethodOf(r.op)
          /\ Receive(p, r)

UpdateDeleteNext ==
    \E p \in Procs :
        \/ ReceiveFirstCreate(p)
        \/ ReceiveUpdateOrDelete(p)
        \/ Parse(p)
        \/ Lock(p)
        \/ Check(p)
        \/ Write(p)
        \/ Unlock(p)
        \/ Respond(p)

UpdateDeleteSpec == Init /\ [][UpdateDeleteNext]_vars

\* one request per path through the handlers and the repository: two calls
\* that write or fail according to the map, a call that only reads, and a
\* request rejected before any call
FairRequests ==
    {Query("create", "1", "Alice", <<"3", "0">>),
     Query("delete", "1", "", <<>>),
     Query("list", "", "", <<>>),
     Query("find", "", "", <<>>)}

FairNext ==
    \E p \in Procs :
        \/ \E r \in FairRequests : Receive(p, r)
        \/ Parse(p)
        \/ Lock(p)
        \/ Check(p)
        \/ Write(p)
        \/ Unlock(p)
        \/ Respond(p)

\* The Go scheduler runs every runnable goroutine, so a handler step that
\* stays possible is taken; sync.Mutex hands a lock that keeps being released
\* to the goroutine that has waited longest (starvation mode), so a goroutine
\* that can lock again and again does lock. No request has to arrive.
Fairness ==
    \A p \in Procs :
        /\ WF_vars(Parse(p))
        /\ SF_vars(Lock(p))
        /\ WF_vars(Check(p))
        /\ WF_vars(Write(p))
        /\ WF_vars(Unlock(p))
        /\ WF_vars(Respond(p))

FairSpec == Init /\ [][FairNext]_vars /\ Fairness

\* the end-to-end session: create, find, update, find, delete, find on id 1
E2EScript ==
    << Query("create", "1", "Alice", <<"3", "0">>),
       Query("find", "1", "", <<>>),
       Query("update", "1", "Bob", <<"3", "1">>),
       Query("find", "1", "", <<>>),
       Query("delete", "1", "", <<>>),
       Query("find", "1", "", <<>>) >>

\* the client sends the next request of the session once the last one is
\* answered; the server serves it in any goroutine
ReceiveE2E(p) ==
    /\ \A q \in Procs : pc[q] \in {"idle", "done"}
    /\ nreq < Len(E2EScript)
    /\ Dispatch(p, E2EScript[nreq + 1])

E2ENext ==
    \E p \in Procs :
        \/ ReceiveE2E(p)
        \/ Parse(p)
        \/ Lock(p)
        \/ Check(p)
        \/ Write(p)
        \/ Unlock(p)
        \/ Respond(p)

E2ESpec == Init /\ [][E2ENext]_vars

TypeOK ==
    /\ DOMAIN users \subseteq Ids
    /\ mu \in BOOLEAN
    /\ pc \in [Procs -> {"idle", "parse", "lock", "check", "write", "unlock", "respond", "done"}]
    /\ \A p \in Procs : req[p] \in Requests \cup {NoReq}
    /\ nreq \in 0..(IF MaxReqs > Len(E2EScript) THEN MaxReqs ELSE Len(E2EScript))

(* ---------------------------- properties ------------------------------ *)
\* the method m called by p has run its body and is about to return: ret[p] is
\* its result, before[p] the map it found and users the map it leaves
Returning(p, m) == pc[p] = "unlock" /\ call[p].method = m
ArgId(p) == call[p].user.ID

\* C1: a Find of an id whose last successful write is a Create(u), with no
\* Update or Delete of that id since, succeeds and returns u: the same id,
\* name and age.
C1_CreateThenFind ==
    \A p \in Procs :
        (Returning(p, "Find") /\ hist[ArgId(p)].st = "created")
            => /\ ret[p].err = Nil
               /\ ret[p].user = hist[ArgId(p)].user
               /\ ret[p].user.ID = ArgId(p)

C1_Witness ==
    \E p \in Procs :
        /\ Returning(p, "Find")
        /\ hist[ArgId(p)].st = "created"
        /\ ret[p].err = Nil
        /\ ret[p].user = User("1", "Bob", 31)

\* C2: a Create of an id the map already holds returns "user already exists"
\* and leaves the whole map as it found it, whatever name and age it carries.
C2_DuplicateCreate ==
    \A p \in Procs :
        (Returning(p, "Create") /\ ArgId(p) \in DOMAIN before[p])
            => /\ ret[p].err = ErrAlreadyExists
               /\ users = before[p]

C2_Witness ==
    \E p \in Procs :
        /\ Returning(p, "Create")
        /\ ArgId(p) \in DOMAIN before[p]
        /\ before[p][ArgId(p)] # call[p].user
        /\ ret[p].err = ErrAlreadyExists
        /\ users = before[p]

\* C3: Find, Update and Delete of an id that is not a key of the map (never
\* created, or created and since deleted) return "user not found" and leave the
\* map as they found it.
C3_NotFound ==
    \A p \in Procs :
        \A m \in {"Find", "Update", "Delete"} :
            (Returning(p, m) /\ ArgId(p) \notin DOMAIN before[p])
                => /\ ret[p].err = ErrNotFound
                   /\ users = before[p]

C3_Witness ==
    \E p \in Procs :
        /\ Returning(p, "Delete")
        /\ ArgId(p) \notin DOMAIN before[p]
        /\ hist[ArgId(p)].st = "deleted"
        /\ ret[p].err = ErrNotFound

\* C4: once a Delete of an id has succeeded and until a Create of that id
\* succeeds, a Find or a further Delete of that id that runs its lookup fails
\* with "user not found" and changes nothing.
C4_FindAfterDelete ==
    [][\A p \in Procs :
          ( /\ pc[p] = "check"
            /\ pc'[p] # "check"
            /\ call[p].method \in {"Find", "Delete"}
            /\ hist[ArgId(p)].st = "deleted" )
          => /\ pc'[p] = "unlock"
             /\ ret'[p].err = ErrNotFound
             /\ users' = users]_vars

C4_Witness ==
    \E p \in Procs :
        /\ Returning(p, "Find")
        /\ hist[ArgId(p)].st = "deleted"
        /\ ret[p].err = ErrNotFound

\* C5: with one request at a time, the length of the slice List returns is the
\* number of Create calls that have returned success minus the number of Delete
\* calls that have returned success, and so is the size of the map between calls.
C5_ListSize ==
    /\ \A p \in Procs :
          Returning(p, "List") => Len(ret[p].list) = nCreateOK - nDeleteOK
    /\ ~mu => Cardinality(DOMAIN users) = nCreateOK - nDeleteOK

C5_Witness ==
    \E p \in Procs :
        /\ Returning(p, "List")
        /\ Len(ret[p].list) = 2
        /\ nCreateOK = 2

\* a Create call of p that has returned to its handler
CreateReturned(p) == pc[p] \in {"respond", "done"} /\ call[p].method = "Create"

\* C6: when callers concurrently create pairwise distinct ids that the map does
\* not hold, every Create returns success and its record stays in the map as
\* passed, and a List that starts after they have returned holds every created
\* record with its own name and age, and no more entries than were created.
C6_ConcurrentCreates ==
    /\ \A p \in Procs :
          (pc[p] \in {"unlock", "respond", "done"} /\ call[p].method = "Create")
              => /\ ret[p].err = Nil
                 /\ ArgId(p) \in DOMAIN users
                 /\ users[ArgId(p)] = call[p].user
    /\ \A p \in Procs :
          Returning(p, "List")
              => /\ \A i \in Ids :
                      hist[i].st = "created"
                          => \E k \in 1..Len(ret[p].list) : ret[p].list[k] = hist[i].user
                 /\ \A q \in Procs :
                      CreateReturned(q)
                          => \E k \in 1..Len(ret[p].list) : ret[p].list[k] = call[q].user
                 /\ Len(ret[p].list) = nCreateOK

\* the List that follows two creates by different callers returns both records
C6_Witness ==
    \E p \in Procs :
        /\ Returning(p, "List")
        /\ Len(ret[p].list) = 2
        /\ nCreateOK = 2
        /\ \E q \in Procs \ {p} : CreateReturned(q) /\ call[q].user.Name = "Bob"
        /\ \E k \in 1..2 : ret[p].list[k].Name = "Alice"

\* two creates of distinct ids overlap: one has inserted its record and still
\* holds the mutex while the other waits for it
C6_Overlap ==
    \E p, q \in Procs :
        /\ p # q
        /\ Returning(p, "Create") /\ ret[p].err = Nil
        /\ pc[q] = "lock" /\ call[q].method = "Create"
        /\ ArgId(p) # ArgId(q)

\* p is between its lock acquisition and its lock release
InCS(p) == pc[p] \in {"check", "write", "unlock"}

\* C7: at most one repository operation is between its lock acquisition and
\* its release, and the mutex is locked exactly while such an operation exists:
\* every return, the error returns included, releases it.
C7_MutualExclusion ==
    /\ Cardinality({p \in Procs : InCS(p)}) <= 1
    /\ mu <=> (\E p \in Procs : InCS(p))

C7_Witness ==
    \E p, q \in Procs :
        /\ p # q
        /\ pc[p] = "respond"
        /\ ret[p].err # Nil
        /\ InCS(q)
        /\ mu

\* C8: an Update of an id the map holds succeeds, stores exactly the record it
\* was given under that id and leaves the set of ids as it was; a Find that
\* follows returns that record, name and age both new.
C8_UpdateReplaces ==
    /\ \A p \in Procs :
          (Returning(p, "Update") /\ ArgId(p) \in DOMAIN before[p])
              => /\ ret[p].err = Nil
                 /\ DOMAIN users = DOMAIN before[p]
                 /\ users[ArgId(p)] = call[p].user
                 /\ users[ArgId(p)].ID = ArgId(p)
    /\ \A p \in Procs :
          (Returning(p, "Find") /\ hist[ArgId(p)].st = "updated")
              => /\ ret[p].err = Nil
                 /\ ret[p].user = hist[ArgId(p)].user

C8_Witness ==
    \E p \in Procs :
        /\ Returning(p, "Update")
        /\ ArgId(p) \in DOMAIN before[p]
        /\ before[p][ArgId(p)].Name # call[p].user.Name
        /\ before[p][ArgId(p)].Age # call[p].user.Age
        /\ users[ArgId(p)] = call[p].user

\* a required query parameter of the request is empty
MissingParam(r) ==
    \/ r.op \in {"create", "update"} /\ (r.id = "" \/ r.name = "" \/ r.age = <<>>)
    \/ r.op \in {"find", "delete"} /\ r.id = ""

\* C9: a create, find, update or delete request with a required parameter empty
\* is answered 400 from the validation step: the handler ends there without a
\* repository call, and the map and the mutex are untouched.
C9_MissingParameter ==
    [][\A p \in Procs :
          (pc[p] = "parse" /\ pc'[p] # "parse" /\ MissingParam(req[p]))
              => /\ pc'[p] = "done"
                 /\ resp'[p].status = StatusBadRequest
                 /\ call'[p] = NoCall
                 /\ users' = users
                 /\ mu' = mu]_vars

C9_Witness ==
    \E p \in Procs :
        /\ pc[p] = "done"
        /\ resp[p] = HttpError(MsgMissingId, StatusBadRequest)
        /\ call[p] = NoCall
        /\ users # <<>>

\* C10: a create or update request with id, name and age all non-empty whose
\* age is no integer is answered 400 with "Invalid age parameter", which is not
\* the missing-parameter message; the handler ends there and the map is unchanged.
C10_InvalidAge ==
    [][\A p \in Procs :
          ( /\ pc[p] = "parse"
            /\ pc'[p] # "parse"
            /\ req[p].op \in {"create", "update"}
            /\ req[p].id # "" /\ req[p].name # "" /\ req[p].age # <<>>
            /\ ~Atoi(req[p].age).ok )
              => /\ pc'[p] = "done"
                 /\ resp'[p] = HttpError(MsgInvalidAge, StatusBadRequest)
                 /\ resp'[p].body # HttpError(MsgMissingParams, StatusBadRequest).body
                 /\ call'[p] = NoCall
                 /\ users' = users]_vars

C10_Witness ==
    \E p \in Procs :
        /\ pc[p] = "done"
        /\ resp[p] = HttpError(MsgInvalidAge, StatusBadRequest)
        /\ call[p] = NoCall
        /\ "1" \in DOMAIN users

\* the request of p was well formed and has been answered after its repository call
Answered(p, m) == pc[p] = "done" /\ call[p].method = m

\* C11: the status of a well-formed request follows the repository outcome.
\* create: 201 with an empty body when the id was absent (the record is
\* inserted), 500 when it was present; find: 200 with the JSON of the stored
\* record when present, 404 when absent; update and delete: 200 when present,
\* 500 when absent.  Every error body is the error text of the repository
\* (http.Error ends it with a newline), and a method that returns an error
\* leaves the map as it found it.
C11_StatusMapping ==
    \A p \in Procs :
        /\ (pc[p] = "unlock" /\ ret[p].err # Nil) => users = before[p]
        /\ (Returning(p, "Create") /\ ~found[p])
              => ArgId(p) \in DOMAIN users /\ users[ArgId(p)] = call[p].user
        /\ (Returning(p, "Find") /\ found[p]) => ret[p].user = before[p][ArgId(p)]
        /\ Answered(p, "Create")
              => resp[p] = IF found[p]
                               THEN [status |-> StatusInternalServerError,
                                     body |-> <<ErrAlreadyExists, "\n">>]
                               ELSE [status |-> StatusCreated, body |-> <<>>]
        /\ Answered(p, "Find")
              => resp[p] = IF found[p]
                               THEN [status |-> StatusOK,
                                     body |-> EncodeUser(ret[p].user) \o <<"\n">>]
                               ELSE [status |-> StatusNotFound,
                                     body |-> <<ErrNotFound, "\n">>]
        /\ (Answered(p, "Update") \/ Answered(p, "Delete"))
              => resp[p] = IF found[p]
                               THEN [status |-> StatusOK, body |-> <<>>]
                               ELSE [status |-> StatusInternalServerError,
                                     body |-> <<ErrNotFound, "\n">>]

C11_Witness ==
    \E p \in Procs :
        /\ Answered(p, "Find")
        /\ ~found[p]
        /\ resp[p].status = StatusNotFound
        /\ hist[ArgId(p)].st = "deleted"

\* the responses of the end-to-end session, in order
E2EExpected ==
    << [status |-> 201, body |-> <<>>],
       [status |-> 200,
        body |-> << "{", "\"", "id", "\"", ":", "\"", "1", "\"", ",",
                    "\"", "name", "\"", ":", "\"", "Alice", "\"", ",",
                    "\"", "age", "\"", ":", "3", "0", "}", "\n" >>],
       [status |-> 200, body |-> <<>>],
       [status |-> 200,
        body |-> << "{", "\"", "id", "\"", ":", "\"", "1", "\"", ",",
                    "\"", "name", "\"", ":", "\"", "Bob", "\"", ",",
                    "\"", "age", "\"", ":", "3", "1", "}", "\n" >>],
       [status |-> 200, body |-> <<>>],
       [status |-> 404, body |-> <<"user not found", "\n">>] >>

\* C12: from an empty map the session create(1, Alice, 30), find(1),
\* update(1, Bob, 31), find(1), delete(1), find(1), one request after the
\* other, is answered 201, 200, 200, 200, 200, 404; the first find carries
\* (1, Alice, 30), the second (1, Bob, 31), and the map is empty at the end.
C12_EndToEnd ==
    [][\A p \in Procs :
          (pc[p] = "respond" /\ pc'[p] = "done")
              => /\ resp'[p] = E2EExpected[nreq]
                 /\ nreq = Len(E2EScript) => users' = <<>>]_vars

C12_Witness ==
    \E p \in Procs :
        /\ nreq = 6
        /\ pc[p] = "done"
        /\ resp[p].status = 404
        /\ users = <<>>
        /\ hist["1"].st = "deleted"

\* the records of a slice and of the map, as sets
Elems(l) == {l[k] : k \in 1..Len(l)}
Records(us) == {us[i] : i \in DOMAIN us}

\* C13: List never fails and returns exactly the records of the map, each
\* once (none when the map is empty), and the list handler answers 200 with a
\* JSON array: "[" ... "]", also when the map is empty, never null.
C13_ListArray ==
    \A p \in Procs :
        /\ Returning(p, "List")
              => /\ ret[p].err = Nil
                 /\ Len(ret[p].list) = Cardinality(DOMAIN users)
                 /\ Elems(ret[p].list) = Records(users)
        /\ Answered(p, "List")
              => /\ resp[p].status = StatusOK
                 /\ Head(resp[p].body) = "["
                 /\ resp[p].body[Len(resp[p].body) - 1] = "]"
                 /\ resp[p].body # <<"null", "\n">>

\* p is outside its repository call: it has no request, reads its parameters
\* or writes its response
InHandler(p) == pc[p] \in {"idle", "parse", "respond", "done"}

\* C14: a goroutine that parses its parameters or writes its response does
\* not hold the mutex: when the mutex is locked, another goroutine is inside
\* its repository call; and a goroutine that waits for the mutex while every
\* other one parses, responds or waits too can take it at once.
C14_LockOnlyInCall ==
    \A p \in Procs :
        /\ (InHandler(p) /\ mu) => \E q \in Procs \ {p} : InCS(q)
        /\ (pc[p] = "lock" /\ \A q \in Procs \ {p} : InHandler(q) \/ pc[q] = "lock")
              => ENABLED Lock(p)

C14_Witness ==
    \E p, q \in Procs :
        /\ p # q
        /\ pc[p] = "respond"
        /\ pc[q] = "lock"
        /\ ENABLED Lock(q)

\* the map a complete call of p makes of the map m it found
Effect(p, m) ==
    CASE call[p].method = "Create" -> MapPut(m, call[p].user)
      [] call[p].method = "Update" -> MapPut(m, call[p].user)
      [] call[p].method = "Delete" -> MapDelete(m, ArgId(p))
      [] OTHER -> m

\* C15: under every interleaving each record of the map carries the id it is
\* stored under, so no two entries share an id; and while a call is inside the
\* mutex the map is the map the call found, or, once it has written, that map
\* after exactly one whole insert, replacement or removal.
C15_WholeUpdates ==
    /\ \A i \in DOMAIN users : users[i].ID = i
    /\ Cardinality(Records(users)) = Cardinality(DOMAIN users)
    /\ \A p \in Procs :
          InCS(p) => \/ users = before[p]
                     \/ pc[p] = "unlock" /\ ret[p].err = Nil
                                         /\ users = Effect(p, before[p])

C15_Witness ==
    \E p, q \in Procs :
        /\ p # q
        /\ Returning(p, "Update")
        /\ users # before[p]
        /\ users = Effect(p, before[p])
        /\ pc[q] = "lock"

\* the goroutines whose Create has returned, and those it returned nil to
CreateCallers == {p \in Procs : call[p].method = "Create" /\ pc[p] \in {"respond", "done"}}
CreateWinners == {p \in CreateCallers : ret[p].err = Nil}

\* C16: of the Creates of one id that run together on a map without that id,
\* exactly one returns nil and every other returns "user already exists",
\* under every interleaving; the map then holds the record of the one that
\* returned nil and nothing else.
C16_OneCreateWins ==
    /\ Cardinality(CreateWinners) <= 1
    /\ CreateCallers # {} => Cardinality(CreateWinners) = 1
    /\ \A p \in CreateCallers \ CreateWinners : ret[p].err = ErrAlreadyExists
    /\ \A p \in CreateWinners :
          /\ DOMAIN users = {ArgId(p)}
          /\ users[ArgId(p)] = call[p].user

C16_Witness ==
    \E p, q \in Procs :
        /\ pc[p] = "respond" /\ pc[q] = "respond"
        /\ ArgId(p) = ArgId(q)
        /\ call[p].user # call[q].user
        /\ ret[p].err = Nil
        /\ ret[q].err = ErrAlreadyExists
        /\ users[ArgId(p)] = call[p].user

\* the repository call of p has returned to its handler
Returned(p) == pc[p] \in {"respond", "done"}

\* C17: an Update(u) and a Delete(u.ID) that run together on a map holding
\* u.ID: under every interleaving the Delete returns nil; the Update returns
\* nil when it took the lock before the Delete and "user not found" when it
\* took it after; and once both have returned the map has no entry for u.ID.
C17_UpdateDeleteRace ==
    \A p, q \in Procs :
        (call[p].method = "Update" /\ call[q].method = "Delete" /\ ArgId(p) = ArgId(q))
            => /\ Returned(q) => ret[q].err = Nil
               /\ (Returned(p) /\ (turn[q] = 0 \/ turn[p] < turn[q])) => ret[p].err = Nil
               /\ (Returned(p) /\ turn[q] > 0 /\ turn[q] < turn[p])
                      => ret[p].err = ErrNotFound
               /\ (Returned(p) /\ Returned(q)) => ArgId(p) \notin DOMAIN users

C17_Witness ==
    \E p, q \in Procs :
        /\ call[p].method = "Update" /\ call[q].method = "Delete"
        /\ ArgId(p) = ArgId(q)
        /\ pc[p] = "respond" /\ pc[q] = "respond"
        /\ turn[q] < turn[p]
        /\ ret[p].err = ErrNotFound
        /\ ret[q].err = Nil
        /\ ArgId(p) \notin DOMAIN users

\* the other order: the Update takes the lock first, both return nil
C17_UpdateFirst ==
    \E p, q \in Procs :
        /\ call[p].method = "Update" /\ call[q].method = "Delete"
        /\ pc[p] = "respond" /\ pc[q] = "respond"
        /\ turn[p] < turn[q]
        /\ ret[p].err = Nil /\ ret[q].err = Nil
        /\ users = <<>>

\* the result r of a repository call is the result a of the atomic map: the
\* same error, the same record, and a list of exactly the same records
SameResult(r, a) ==
    /\ r.err = a.err
    /\ r.user = a.user
    /\ Elems(r.list) = a.recs
    /\ Len(r.list) = Cardinality(a.recs)

\* C18: every concurrent execution is equivalent to the atomic map applying
\* the same calls one at a time in the order in which they took the lock:
\* each call returns what the atomic map returned to it, and whenever no call
\* has a write pending the map is the atomic map.
C18_Linearizable ==
    /\ \A p \in Procs :
          pc[p] \in {"unlock", "respond", "done"} => SameResult(ret[p], atomRet[p])
    /\ (\A p \in Procs : pc[p] \notin {"check", "write"}) => users = atom

C18_Witness ==
    \E p, q \in Procs :
        /\ p # q
        /\ pc[p] = "respond" /\ pc[q] = "respond"
        /\ 0 < turn[q] /\ turn[q] < turn[p]
        /\ call[q].method = "Create" /\ ret[q].err = Nil
        /\ call[p].method = "List" /\ Len(ret[p].list) = 2
        /\ SameResult(ret[p], atomRet[p])
        /\ users = atom

\* the entry of id y is the same in the maps a and b: in both or in neither,
\* and when in both, the same record
SameEntry(a, b, y) ==
    /\ y \in DOMAIN a <=> y \in DOMAIN b
    /\ y \in DOMAIN a => a[y] = b[y]

\* C19: a Create, Update or Delete of id X, whether it returns nil or an
\* error, leaves the entry of every other id as it found it; Find and List
\* leave the whole map as they found it.
C19_Frame ==
    \A p \in Procs :
        /\ (Returning(p, "Create") \/ Returning(p, "Update") \/ Returning(p, "Delete"))
              => \A y \in Ids \ {ArgId(p)} : SameEntry(users, before[p], y)
        /\ (Returning(p, "Find") \/ Returning(p, "List")) => users = before[p]

C19_Witness ==
    \E p \in Procs :
        /\ Returning(p, "Delete")
        /\ ret[p].err = Nil
        /\ users # before[p]
        /\ \E y \in DOMAIN users : y # ArgId(p) /\ users[y] = before[p][y]

\* the handler of p is serving a request and has not answered it
Pending(p) == pc[p] \in {"parse", "lock", "check", "write", "unlock", "respond"}

\* C20: under fair scheduling every request that starts is answered, once:
\* a pending request has no response yet and a response is written only by
\* the step that ends the request; every call that waits for the lock takes
\* it and returns; and whenever a call waits for the lock, some call can take
\* it or the call inside the mutex can go on to release it.
C20_EveryRequestAnswered ==
    /\ \A p \in Procs : (pc[p] = "parse") ~> (pc[p] = "done" /\ resp[p] # NoResp)
    /\ \A p \in Procs : (pc[p] = "lock") ~> (pc[p] = "check")
    /\ \A p \in Procs : (pc[p] = "check") ~> (pc[p] = "respond" /\ ~InCS(p))
    /\ [](\A p \in Procs : Pending(p) => resp[p] = NoResp)
    /\ [][\A p \in Procs :
             resp'[p] # resp[p] => \/ Pending(p) /\ pc'[p] = "done"
                                   \/ pc'[p] = "parse" /\ resp'[p] = NoResp]_vars
    /\ []((\E p \in Procs : pc[p] = "lock")
             => \E q \in Procs :
                   ENABLED (Lock(q) \/ Check(q) \/ Write(q) \/ Unlock(q)))

C20_Witness ==
    \E p, q \in Procs :
        /\ pc[p] = "lock"
        /\ ~ENABLED Lock(p)
        /\ pc[q] = "unlock"
        /\ ret[q].err # Nil

====
